---- MODULE Spec2Model ----
(***************************************************************************)
(* Saving Planner 2.0: a state-machine model of                            *)
(* final-project/currentversion-final-project.py (the current version) and *)
(* of the arithmetic of final-project-python2.py (its predecessor).        *)
(*                                                                         *)
(* Numbers.  The program computes with Python floats.  The model computes  *)
(* with exact rationals <<n, d>> (d > 0, lowest terms), so a property      *)
(* checked here is a property of the program's arithmetic before rounding. *)
(* Python ints (periods, multiplier, days_passed, total_days) are plain    *)
(* integers.                                                               *)
(*                                                                         *)
(* Text.  A string typed by the user is a sequence of one-character        *)
(* strings.  A line of the-plan.txt is a sequence of tokens: a token is    *)
(* either one character of text or one formatted number (the text that     *)
(* an f-string makes of a float or of an int).                             *)
(***************************************************************************)
EXTENDS Integers, Sequences, FiniteSets, TLC

VARIABLES
    pc,      \* position of the process: which input() it is blocked on
    plans,   \* PlansManager.plans: dict name -> Plan, in insertion order
    file,    \* the-plan.txt: whether it exists, and its lines
    sel,     \* menu_view_plans' selected_name (<<>> when none is selected)
    inp,     \* what the user typed into the last operation
    out      \* what the last operation computed and printed

vars == <<pc, plans, file, sel, inp, out>>

----------------------------------------------------------------------------
(* Exact rational arithmetic standing for Python's float arithmetic.       *)

Abs(n) == IF n < 0 THEN -n ELSE n

\* The arithmetic is kept in functions: a function is applied to the values
\* of its arguments, so an expression handed to it is evaluated once.
Rat == Int \X Int

gcd[a \in Nat, b \in Nat] == IF b = 0 THEN a ELSE gcd[b, a % b]
GCD(a, b) == gcd[a, b]

norm[n \in Int, d \in Int] ==
    LET g == gcd[Abs(n), d] IN <<n \div g, d \div g>>
Norm(n, d) == norm[n, d]

R(n) == <<n, 1>>
Zero == R(0)
RNeg(x) == <<-x[1], x[2]>>
\* sums and comparisons over the least common denominator, products after
\* cancelling, so that the intermediate integers stay small
radd[x \in Rat, y \in Rat] ==
    LET g == gcd[x[2], y[2]] IN
    norm[x[1] * (y[2] \div g) + y[1] * (x[2] \div g), x[2] * (y[2] \div g)]
RAdd(x, y) == radd[x, y]
RSub(x, y) == RAdd(x, RNeg(y))
rmul[x \in Rat, y \in Rat] ==
    LET a == norm[x[1], y[2]]
        b == norm[y[1], x[2]]
    IN  <<a[1] * b[1], a[2] * b[2]>>
RMul(x, y) == rmul[x, y]
\* x / y for y # 0 (the callers guard the ZeroDivisionError case)
rdiv[x \in Rat, y \in Rat] ==
    IF y[1] > 0 THEN rmul[x, <<y[2], y[1]>>] ELSE rmul[x, <<-y[2], -y[1]>>]
RDiv(x, y) == rdiv[x, y]
rlt[x \in Rat, y \in Rat] ==
    LET g == gcd[x[2], y[2]] IN x[1] * (y[2] \div g) < y[1] * (x[2] \div g)
RLt(x, y) == rlt[x, y]
RLe(x, y) == ~RLt(y, x)
RMax(x, y) == IF RLt(x, y) THEN y ELSE x

\* math.floor, math.ceil and int() of a float
Floor(x) == x[1] \div x[2]
Ceil(x) == -((-x[1]) \div x[2])
Trunc(x) == IF x[1] >= 0 THEN x[1] \div x[2] ELSE -((-x[1]) \div x[2])

----------------------------------------------------------------------------
(* float(str): the decimal texts [sign] digits [. digits] that Python      *)
(* accepts (exponents, inf and nan are left out of the model).             *)

Digits == <<"0", "1", "2", "3", "4", "5", "6", "7", "8", "9">>
IsDigit(c) == \E i \in 1..10 : Digits[i] = c
DigitVal(c) == (CHOOSE i \in 1..10 : Digits[i] = c) - 1
IsDigits(s) == \A i \in 1..Len(s) : IsDigit(s[i])

RECURSIVE NatOf(_)
NatOf(s) ==
    IF s = <<>> THEN 0
    ELSE NatOf(SubSeq(s, 1, Len(s) - 1)) * 10 + DigitVal(s[Len(s)])

RECURSIVE Pow10(_)
Pow10(k) == IF k = 0 THEN 1 ELSE 10 * Pow10(k - 1)

Failed == [ok |-> FALSE, val |-> Zero]
Parsed(v) == [ok |-> TRUE, val |-> v]

ParseUnsigned(s) ==
    LET dots == {i \in 1..Len(s) : s[i] = "."} IN
    IF dots = {} THEN
        IF Len(s) > 0 /\ IsDigits(s) THEN Parsed(R(NatOf(s))) ELSE Failed
    ELSE IF Cardinality(dots) > 1 THEN Failed
    ELSE
        LET i == CHOOSE j \in dots : TRUE
            ip == SubSeq(s, 1, i - 1)
            fp == SubSeq(s, i + 1, Len(s))
        IN  IF IsDigits(ip) /\ IsDigits(fp) /\ Len(ip) + Len(fp) > 0
            THEN Parsed(Norm(NatOf(ip) * Pow10(Len(fp)) + NatOf(fp), Pow10(Len(fp))))
            ELSE Failed

ParseFloat(s) ==
    IF s = <<>> THEN Failed
    ELSE IF s[1] = "-" THEN
        LET u == ParseUnsigned(Tail(s)) IN
        IF u.ok THEN Parsed(RNeg(u.val)) ELSE Failed
    ELSE IF s[1] = "+" THEN ParseUnsigned(Tail(s))
    ELSE ParseUnsigned(s)

\* int(str): [sign] digits
ParseInt(s) ==
    IF s = <<>> THEN Failed
    ELSE LET u == IF s[1] \in {"-", "+"} THEN Tail(s) ELSE s IN
         IF u # <<>> /\ IsDigits(u)
         THEN Parsed(R(IF s[1] = "-" THEN -NatOf(u) ELSE NatOf(u)))
         ELSE Failed

\* str.replace(c, ""): the string without its occurrences of c
RECURSIVE Remove(_, _)
Remove(s, c) ==
    IF s = <<>> THEN <<>>
    ELSE IF s[1] = c THEN Remove(Tail(s), c)
    ELSE <<s[1]>> \o Remove(Tail(s), c)

\* a validation without the positivity test (departure checked under C11)
input_validation_any_number(value) ==
    ParseFloat(Remove(Remove(value, ","), " "))

\* input_validation: [ok, val], or ok = FALSE when it raises ValueError
input_validation(value) ==
    LET number == ParseFloat(Remove(Remove(value, ","), " ")) IN
    IF ~number.ok THEN Failed
    ELSE IF RLe(number.val, Zero) THEN Failed
    ELSE number

LowerYes(s) == s \in {<<"y">>, <<"Y">>}
LowerNo(s) == s \in {<<"n">>, <<"N">>}

----------------------------------------------------------------------------
(* class Plan                                                              *)

Plan(name, allowance, expenses, goal, periods, unit, multiplier) ==
    [name |-> name, allowance |-> allowance, expenses |-> expenses,
     goal |-> goal, periods |-> periods, unit |-> unit,
     multiplier |-> multiplier, saved_so_far |-> Zero, days_passed |-> 0]

net(p) == RSub(p.allowance, p.expenses)

\* an add_saved without its test of the amount (departure checked under C12)
add_saved_unchecked(p, amount) ==
    [raised |-> FALSE,
     plan |-> [p EXCEPT !.saved_so_far = RAdd(p.saved_so_far, amount),
                        !.days_passed = p.days_passed + 1]]

\* an add_saved that stops counting days at the end of the plan (departure
\* checked under C16)
add_saved_capped(p, amount) ==
    IF RLe(amount, Zero) THEN [raised |-> TRUE, plan |-> p]
    ELSE [raised |-> FALSE,
          plan |-> [p EXCEPT !.saved_so_far = RAdd(p.saved_so_far, amount),
                             !.days_passed =
                                 IF p.days_passed < p.periods * p.multiplier
                                 THEN p.days_passed + 1
                                 ELSE p.days_passed]]

\* the methods that raise ValueError return [raised, plan]
add_saved(p, amount) ==
    IF RLe(amount, Zero) THEN [raised |-> TRUE, plan |-> p]
    ELSE [raised |-> FALSE,
          plan |-> [p EXCEPT !.saved_so_far = RAdd(p.saved_so_far, amount),
                             !.days_passed = p.days_passed + 1]]

update_allowance(p, new_allowance) ==
    IF RLe(new_allowance, Zero) THEN [raised |-> TRUE, plan |-> p]
    ELSE [raised |-> FALSE, plan |-> [p EXCEPT !.allowance = new_allowance]]

update_expenses(p, new_expenses) ==
    IF RLe(new_expenses, Zero) THEN [raised |-> TRUE, plan |-> p]
    ELSE [raised |-> FALSE, plan |-> [p EXCEPT !.expenses = new_expenses]]

\* a reset that forgets the day counter (departure checked under C13)
reset_saved_only(p) == [p EXCEPT !.saved_so_far = Zero]

reset(p) == [p EXCEPT !.saved_so_far = Zero, !.days_passed = 0]

total_days(p) == p.periods * p.multiplier

\* the daily amount of the earlier version, which never goes below 0
\* (departure checked under C14)
daily_needed_clamped(p) ==
    LET remaining == RMax(RSub(p.goal, p.saved_so_far), Zero)
        days_left == total_days(p) - p.days_passed
    IN  IF days_left > 0 THEN RDiv(remaining, R(days_left)) ELSE Zero

daily_needed(p) ==
    LET remaining == RSub(p.goal, p.saved_so_far)
        remaining_days == total_days(p) - p.days_passed
    IN  IF remaining_days <= 0 THEN Zero
        ELSE IF RLt(remaining, Zero)
             THEN RNeg(RDiv(RSub(p.saved_so_far, p.goal), R(remaining_days)))
        ELSE RDiv(remaining, R(remaining_days))

progress_report(p) ==
    LET average_saved ==
            IF p.days_passed > 0
            THEN RDiv(p.saved_so_far, R(p.days_passed)) ELSE Zero
    IN  [goal |-> p.goal,
         saved_so_far |-> p.saved_so_far,
         remaining |-> RMax(RSub(p.goal, p.saved_so_far), Zero),
         days_passed |-> p.days_passed,
         days_left |-> IF total_days(p) - p.days_passed > 0
                       THEN total_days(p) - p.days_passed ELSE 0,
         daily_needed |-> daily_needed(p),
         average_saved |-> average_saved,
         expected_total |-> RMul(average_saved, R(total_days(p))),
         total_days |-> total_days(p)]

\* a status against the plan's original rate goal / total_days instead of
\* the current daily_needed (departure checked under C15)
StatusOfBaseline(p) ==
    LET expected_by_now ==
            RMul(RDiv(p.goal, R(total_days(p))), R(p.days_passed)) IN
    IF RLt(expected_by_now, p.saved_so_far) THEN "Ahead of schedule"
    ELSE IF RLt(p.saved_so_far, expected_by_now) THEN "Behind schedule"
    ELSE "Right on track"

\* the status line of show_progress_report
StatusOf(p) ==
    LET expected_by_now == RMul(daily_needed(p), R(p.days_passed)) IN
    IF RLt(expected_by_now, p.saved_so_far) THEN "Ahead of schedule"
    ELSE IF RLt(p.saved_so_far, expected_by_now) THEN "Behind schedule"
    ELSE "Right on track"

\* the message of recalc_daily_needed, and the amount it prints
RecalcMessage(p) ==
    LET new_daily_needed == daily_needed(p) IN
    IF new_daily_needed = Zero /\ RLe(p.goal, p.saved_so_far)
    THEN [text |-> "Goal already reached!", amount |-> 0]
    ELSE IF new_daily_needed = Zero
    THEN [text |-> "No time left.", amount |-> 0]
    ELSE [text |-> "New daily saving needed to reach goal",
          amount |-> Ceil(new_daily_needed)]

----------------------------------------------------------------------------
(* PlansManager.plans: a Python dict, kept as the sequence of its values   *)
(* in insertion order.                                                     *)

HasName(ps, name) == \E i \in 1..Len(ps) : ps[i].name = name
IndexOf(ps, name) == CHOOSE i \in 1..Len(ps) : ps[i].name = name
NamesOf(ps) == [i \in 1..Len(ps) |-> ps[i].name]

\* self.plans[plan.name] = plan: an existing key keeps its position
DictSet(ps, plan) ==
    IF HasName(ps, plan.name)
    THEN [ps EXCEPT ![IndexOf(ps, plan.name)] = plan]
    ELSE Append(ps, plan)

\* self.plans.pop(name, None)
DictPop(ps, name) ==
    IF HasName(ps, name)
    THEN LET i == IndexOf(ps, name) IN
         SubSeq(ps, 1, i - 1) \o SubSeq(ps, i + 1, Len(ps))
    ELSE ps

----------------------------------------------------------------------------
(* the-plan.txt: name|allowance|expenses|goal|periods|unit|multiplier|     *)
(* saved_so_far|days_passed, one line per record.                          *)

Txt(c) == [k |-> "txt", c |-> c, v |-> Zero]
FloatLit(x) == [k |-> "float", c |-> "", v |-> x]
IntLit(n) == [k |-> "int", c |-> "", v |-> R(n)]
Sep == Txt("|")
TextOf(s) == [i \in 1..Len(s) |-> Txt(s[i])]

\* the f-string of write_plan_to_file and of write_all_plans_to_file
FormatLine(p) ==
    TextOf(p.name) \o
    <<Sep, FloatLit(p.allowance), Sep, FloatLit(p.expenses),
      Sep, FloatLit(p.goal), Sep, IntLit(p.periods), Sep>> \o TextOf(p.unit) \o
    <<Sep, IntLit(p.multiplier), Sep, FloatLit(p.saved_so_far),
      Sep, IntLit(p.days_passed)>>

IsSpace(t) == t.k = "txt" /\ t.c = " "

\* str.strip()
RECURSIVE LStrip(_)
LStrip(s) ==
    IF s # <<>> /\ IsSpace(s[1]) THEN LStrip(Tail(s)) ELSE s
RECURSIVE RStrip(_)
RStrip(s) ==
    IF s # <<>> /\ IsSpace(s[Len(s)]) THEN RStrip(SubSeq(s, 1, Len(s) - 1)) ELSE s
Strip(s) == RStrip(LStrip(s))

\* str.split("|"): the fields between the separators (always at least one)
RECURSIVE Split(_)
Split(s) ==
    IF \A i \in 1..Len(s) : s[i] # Sep THEN <<s>>
    ELSE LET i == CHOOSE j \in 1..Len(s) :
                      s[j] = Sep /\ \A h \in 1..(j - 1) : s[h] # Sep
         IN  <<SubSeq(s, 1, i - 1)>> \o Split(SubSeq(s, i + 1, Len(s)))

IsText(f) == \A i \in 1..Len(f) : f[i].k = "txt"
CharsOf(f) == [i \in 1..Len(f) |-> f[i].c]

\* float(field) of load_plans_from_file
FloatOf(field) ==
    LET f == Strip(field) IN
    IF Len(f) = 1 /\ f[1].k \in {"float", "int"} THEN Parsed(f[1].v)
    ELSE IF IsText(f) THEN ParseFloat(CharsOf(f))
    ELSE Failed

\* int(field) of load_plans_from_file: the text of a float is refused
IntOf(field) ==
    LET f == Strip(field) IN
    IF Len(f) = 1 /\ f[1].k = "int" THEN Parsed(f[1].v)
    ELSE IF IsText(f) THEN ParseInt(CharsOf(f))
    ELSE Failed

\* the body of the loop of load_plans_from_file for one line:
\* [raised, skipped, plan]
LoadLine(line) ==
    LET parts == Split(Strip(line))
        none == Plan(<<>>, Zero, Zero, Zero, 0, <<>>, 0)
    IN  IF Len(parts) # 9
        THEN [raised |-> FALSE, skipped |-> TRUE, plan |-> none]
        ELSE
        LET allowance == FloatOf(parts[2])
            expenses == FloatOf(parts[3])
            goal == FloatOf(parts[4])
            periods == IntOf(parts[5])
            multiplier == IntOf(parts[7])
            saved_so_far == FloatOf(parts[8])
            days_passed == IntOf(parts[9])
        IN  IF ~(allowance.ok /\ expenses.ok /\ goal.ok /\ periods.ok
                 /\ multiplier.ok /\ saved_so_far.ok /\ days_passed.ok)
            THEN [raised |-> TRUE, skipped |-> FALSE, plan |-> none]
            ELSE [raised |-> FALSE, skipped |-> FALSE,
                  plan |-> [Plan(CharsOf(parts[1]), allowance.val, expenses.val,
                                 goal.val, periods.val[1],
                                 CharsOf(parts[6]), multiplier.val[1])
                            EXCEPT !.saved_so_far = saved_so_far.val,
                                   !.days_passed = days_passed.val[1]]]

\* load_plans_from_file: [raised, plans].  FileNotFoundError is caught;
\* the ValueError of float() and int() is not.
RECURSIVE LoadLines(_, _)
LoadLines(lines, ps) ==
    IF lines = <<>> THEN [raised |-> FALSE, plans |-> ps]
    ELSE LET r == LoadLine(lines[1]) IN
         IF r.raised THEN [raised |-> TRUE, plans |-> ps]
         ELSE IF r.skipped THEN LoadLines(Tail(lines), ps)
         ELSE LoadLines(Tail(lines), DictSet(ps, r.plan))

load_plans_from_file(f, ps) ==
    IF ~f.exists THEN [raised |-> FALSE, plans |-> ps]
    ELSE LoadLines(f.lines, ps)

\* write_all_plans_to_file: open(..., "w")
write_all_plans_to_file(ps) ==
    [exists |-> TRUE, lines |-> [i \in 1..Len(ps) |-> FormatLine(ps[i])]]

\* write_plan_to_file: open(..., "a")
write_plan_to_file(f, plan) ==
    [exists |-> TRUE,
     lines |-> (IF f.exists THEN f.lines ELSE <<>>) \o <<FormatLine(plan)>>]

\* save_plan: [plans, file]
save_plan(ps, f, plan) ==
    [plans |-> DictSet(ps, plan), file |-> write_plan_to_file(f, plan)]

----------------------------------------------------------------------------
(* with_time_unit: the choice typed at "Enter choice (1-4)" (the wrapper   *)
(* asks again until the choice is one of these).                           *)

Day == <<"d", "a", "y">>
Week == <<"w", "e", "e", "k">>
Month == <<"m", "o", "n", "t", "h">>
Year == <<"y", "e", "a", "r">>

with_time_unit(choice) ==
    CASE choice = "1" -> [unit |-> Day, multiplier |-> 1]
      [] choice = "2" -> [unit |-> Week, multiplier |-> 7]
      [] choice = "3" -> [unit |-> Month, multiplier |-> 30]
      [] choice = "4" -> [unit |-> Year, multiplier |-> 365]

Multipliers == {with_time_unit(c).multiplier : c \in {"1", "2", "3", "4"}}

----------------------------------------------------------------------------
(* Menu 1: the arithmetic of menu_check_feasibility on validated inputs.   *)
(* raised = TRUE is the ZeroDivisionError of goal / total_days.            *)

\* a slip in the second comparison: max_possible <= goal
VerdictClosed(total_saving_possible, max_possible, goal) ==
    IF RLe(goal, total_saving_possible) THEN "possible"
    ELSE IF RLe(max_possible, goal) THEN "impossible"
    ELSE "conditional"

\* if total_saving_possible >= goal ... else: if max_possible < goal ...
Verdict(total_saving_possible, max_possible, goal) ==
    IF RLe(goal, total_saving_possible) THEN "possible"
    ELSE IF RLt(max_possible, goal) THEN "impossible"
    ELSE "conditional"

FeasibilityCalc(allowance, expenses, duration, goal, multiplier) ==
    LET daily_allowance == RDiv(allowance, R(multiplier))
        daily_expenses == RDiv(expenses, R(multiplier))
        daily_saving == RSub(daily_allowance, daily_expenses)
        n_days == Trunc(duration) * multiplier
        total_saving_possible == RMul(daily_saving, R(n_days))
    IN  IF n_days = 0
        THEN [raised |-> TRUE, verdict |-> "none", periods |-> Trunc(duration),
              total_days |-> n_days,
              total_saving_possible |-> total_saving_possible,
              max_possible |-> Zero, required_daily |-> 0,
              required_shown |-> Zero, extra |-> Zero, extra_shown |-> 0,
              needed_cut |-> 0, cut_shown |-> 0, new_expenses |-> expenses]
        ELSE
        LET required_daily == Ceil(RDiv(goal, R(n_days)))
            extra == RSub(total_saving_possible, goal)
            max_possible == RMul(daily_allowance, R(n_days))
            needed_cut ==
                Ceil(RSub(RAdd(RDiv(goal, R(n_days)), daily_expenses),
                          daily_allowance))
        IN  [raised |-> FALSE,
             verdict |-> Verdict(total_saving_possible, max_possible, goal),
             periods |-> Trunc(duration),
             total_days |-> n_days,
             total_saving_possible |-> total_saving_possible,
             max_possible |-> max_possible,
             required_daily |-> required_daily,
             required_shown |-> RDiv(R(required_daily), R(multiplier)),
             extra |-> extra,
             extra_shown |-> Floor(extra),
             needed_cut |-> needed_cut,
             cut_shown |-> Ceil(RDiv(R(needed_cut), R(multiplier))),
             new_expenses |-> RSub(expenses, RDiv(R(needed_cut), R(multiplier)))]

\* the same menu in final-project-python2.py: per-unit arithmetic, the
\* duration read with int(), no rounding of the cut
FeasibilityCalcV1(allowance, expenses, duration, goal, multiplier) ==
    LET money_saved == RSub(allowance, expenses)
        total_saved == RMul(money_saved, R(duration))
        max_possible == RMul(allowance, R(duration))
        required_per_period == RDiv(goal, R(duration))
        needed_cut == RSub(required_per_period, money_saved)
    IN  [raised |-> FALSE,
         verdict |-> Verdict(total_saved, max_possible, goal),
         periods |-> duration,
         total_days |-> duration * multiplier,
         total_saving_possible |-> total_saved,
         max_possible |-> max_possible,
         required_daily |-> 0,
         required_shown |-> Zero,
         extra |-> RSub(total_saved, goal),
         extra_shown |-> 0,
         needed_cut |-> 0,
         cut_shown |-> 0,
         new_expenses |-> RSub(expenses, needed_cut)]

----------------------------------------------------------------------------
(* Menu 2: the arithmetic of menu_time_needed.                             *)

\* a slip in the daily rate: 365 / interest_rate
SimDayInverted(total_saved, nt, multiplier, interest_rate) ==
    RMul(RAdd(total_saved, RDiv(nt, R(multiplier))),
         RAdd(R(1), RDiv(R(365), interest_rate)))

\* one day of the compound-interest loop
SimDay(total_saved, nt, multiplier, interest_rate) ==
    RMul(RAdd(total_saved, RDiv(nt, R(multiplier))),
         RAdd(R(1), RDiv(interest_rate, R(365))))

\* a loop that goes on while total_saved <= goal (departure checked under
\* C17)
LoopContinuesClosed(total_saved, goal) == RLe(total_saved, goal)

\* the loop's test: while total_saved < goal
LoopContinues(total_saved, goal) == RLt(total_saved, goal)

\* while total_saved < goal: ...; [total_saved, total_days]
RECURSIVE Simulate(_, _, _, _, _, _)
Simulate(total_saved, days, nt, multiplier, interest_rate, goal) ==
    IF LoopContinues(total_saved, goal)
    THEN Simulate(SimDay(total_saved, nt, multiplier, interest_rate),
                  days + 1, nt, multiplier, interest_rate, goal)
    ELSE [total_saved |-> total_saved, total_days |-> days]

\* the earlier version's goal / net, cut to a whole number of periods
TimeNoInterestFloor(nt, goal, multiplier) ==
    LET periods_needed == Floor(RDiv(goal, nt)) IN
    [periods_needed |-> periods_needed, days |-> periods_needed * multiplier]

\* math.ceil(goal / net), and the days it stands for
TimeNoInterest(nt, goal, multiplier) ==
    LET periods_needed == Ceil(RDiv(goal, nt)) IN
    [periods_needed |-> periods_needed, days |-> periods_needed * multiplier]

\* the loop, then math.ceil(total_days / multiplier); percent is the
\* validated input, before the division by 100
TimeWithInterest(nt, goal, multiplier, percent) ==
    LET interest_rate == RDiv(percent, R(100))
        sim == Simulate(Zero, 0, nt, multiplier, interest_rate, goal)
    IN  [periods_needed |-> Ceil(<<sim.total_days, multiplier>>),
         days |-> sim.total_days]

----------------------------------------------------------------------------
(* The interactive program: what the user may type, and the bounds that    *)
(* keep the state space finite.                                            *)

MaxPlans == 2        \* plans in the store
MaxFileLines == 2    \* lines of the-plan.txt
MaxDaysPassed == 2   \* successful add_saved calls on one plan

TypedAllowance == {<<"1", "0">>, <<"x">>}
TypedExpenses == {<<"5">>, <<"1", "0">>}
TypedDuration == {<<"1">>, <<"0", ".", "5">>}
TypedGoal == {<<"1", "0">>, <<"5">>}
TypedRate == {<<"3", "6", "5", "0", "0">>, <<"-", "1">>}
TypedSaved == {<<"1", ",", "0">>, <<"-", "5">>}
TypedNewAllowance == {<<"1", "0">>, <<"0">>}
TypedNewExpenses == {<<"5">>, <<"x">>}
TypedChoice == {<<"0">>, <<"1">>, <<"2">>, <<"3">>, <<"x">>}
UnitChoices == {"1"}
Answers == {<<"y">>, <<"n">>}
PlanNames == {<<"a">>, <<" ", "b">>}

\* a file left by an earlier session: one record, as the program writes it
EarlierFile ==
    [exists |-> TRUE,
     lines |-> <<FormatLine(Plan(<<"a">>, R(10), R(5), R(5), 1, Day, 1))>>]
NoFile == [exists |-> FALSE, lines |-> <<>>]

Result(op, outcome, detail) ==
    [op |-> op, outcome |-> outcome, detail |-> detail]

Init ==
    /\ pc = "start"
    /\ plans = <<>>
    /\ file \in {NoFile, EarlierFile}
    /\ sel = <<>>
    /\ inp = <<>>
    /\ out = Result("none", "none", "")

\* main, before its loop: PlansManager() and load_plans_from_file()
Load ==
    /\ pc = "start"
    /\ LET r == load_plans_from_file(file, plans) IN
       /\ plans' = r.plans
       /\ pc' = IF r.raised THEN "crashed" ELSE "main"
       /\ out' = Result("load", IF r.raised THEN "crash" ELSE "done", "")
    /\ UNCHANGED <<file, sel, inp>>

\* an operation that prints and returns without touching the store
Returns(op, outcome, detail) ==
    /\ out' = Result(op, outcome, detail)
    /\ UNCHANGED <<pc, plans, file, sel, inp>>

\* an exception nobody catches ends the process
Crashes(op) ==
    /\ pc' = "crashed"
    /\ out' = Result(op, "crash", "")
    /\ UNCHANGED <<plans, file, sel, inp>>

\* plans_manager.save_plan(plan) at the end of a menu operation
Saves(op, detail, plan) ==
    /\ HasName(plans, plan.name) \/ Len(plans) < MaxPlans
    /\ Len(file.lines) < MaxFileLines
    /\ LET r == save_plan(plans, file, plan) IN
       /\ plans' = r.plans
       /\ file' = r.file
    /\ out' = Result(op, "saved", detail)
    /\ UNCHANGED <<pc, sel, inp>>

\* menu_check_feasibility, wrapped by with_time_unit, for lines typed from
\* the given sets
MenuCheckFeasibility(Choices, Allowances, Expenses, Durations, Goals, YesNo, Names) ==
    /\ pc = "main"
    /\ \E choice \in Choices, a \in Allowances, e \in Expenses,
          d \in Durations, g \in Goals :
         LET tu == with_time_unit(choice)
             allowance == input_validation(a)
             expenses == input_validation(e)
             duration == input_validation(d)
             goal == input_validation(g)
         IN  IF ~(allowance.ok /\ expenses.ok /\ duration.ok /\ goal.ok)
             THEN Returns("feasibility", "input_error", "")
             ELSE
             LET r == FeasibilityCalc(allowance.val, expenses.val,
                                      duration.val, goal.val, tu.multiplier)
             IN  IF r.raised THEN Crashes("feasibility")
                 ELSE IF r.verdict = "impossible"
                      THEN Returns("feasibility", "done", "")
                 ELSE \E answer \in YesNo :
                      IF ~LowerYes(answer)
                      THEN Returns("feasibility", "declined", "")
                      ELSE \E plan_name \in Names :
                           Saves("feasibility", "",
                                 Plan(plan_name, allowance.val,
                                      IF r.verdict = "possible"
                                      THEN expenses.val ELSE r.new_expenses,
                                      goal.val, r.periods, tu.unit,
                                      tu.multiplier))

menu_check_feasibility ==
    MenuCheckFeasibility(UnitChoices, TypedAllowance, TypedExpenses,
                         TypedDuration, TypedGoal, Answers, PlanNames)

\* menu_time_needed, wrapped by with_time_unit, for lines typed from the
\* given sets
MenuTimeNeeded(Choices, Allowances, Expenses, Goals, Interest, Rates, YesNo, Names) ==
    /\ pc = "main"
    /\ \E choice \in Choices, a \in Allowances, e \in Expenses,
          g \in Goals :
         LET tu == with_time_unit(choice)
             allowance == input_validation(a)
             expenses == input_validation(e)
             goal == input_validation(g)
         IN  IF ~(allowance.ok /\ expenses.ok /\ goal.ok)
             THEN Returns("time", "input_error", "")
             ELSE
             LET nt == RSub(allowance.val, expenses.val) IN
             IF RLe(nt, Zero) THEN Returns("time", "no_saving", "")
             ELSE \E use_interest \in Interest, rate \in Rates :
                  LET percent == input_validation(rate) IN
                  IF ~LowerNo(use_interest) /\ ~percent.ok
                  THEN Returns("time", "input_error", "")
                  ELSE
                  LET t == IF LowerNo(use_interest)
                           THEN TimeNoInterest(nt, goal.val, tu.multiplier)
                           ELSE TimeWithInterest(nt, goal.val, tu.multiplier,
                                                 percent.val)
                  IN  \E answer \in YesNo :
                      IF ~LowerYes(answer)
                      THEN Returns("time", "declined", "")
                      ELSE \E plan_name \in Names :
                           Saves("time", "",
                                 Plan(plan_name, allowance.val, expenses.val,
                                      goal.val, t.periods_needed, tu.unit,
                                      tu.multiplier))

menu_time_needed ==
    MenuTimeNeeded(UnitChoices, TypedAllowance, TypedExpenses, TypedGoal,
                   Answers, TypedRate, Answers, PlanNames)

\* main's "Invalid choice. Try again." and the same line of the sub-menus
InvalidChoice ==
    /\ pc \in {"main", "plan", "tracker"}
    /\ Returns("menu", "invalid", "")

\* main's choice 4
Exit ==
    /\ pc = "main"
    /\ pc' = "exited"
    /\ out' = Result("exit", "done", "")
    /\ UNCHANGED <<plans, file, sel, inp>>

\* menu_view_plans, up to its first prompt
menu_view_plans ==
    /\ pc = "main"
    /\ pc' = IF plans = <<>> THEN "main" ELSE "plans"
    /\ out' = Result("view", IF plans = <<>> THEN "empty" ELSE "done", "")
    /\ UNCHANGED <<plans, file, sel, inp>>

\* menu_view_plans: "Choose a plan by number"
ChoosePlan ==
    /\ pc = "plans"
    /\ \E typed \in TypedChoice :
         LET choice == ParseInt(typed) IN
         IF ~choice.ok THEN Returns("view", "invalid", "")
         ELSE IF choice.val[1] = 0
              THEN /\ pc' = "main"
                   /\ out' = Result("view", "left", "")
                   /\ UNCHANGED <<plans, file, sel, inp>>
         ELSE IF choice.val[1] < 0 \/ choice.val[1] > Len(plans)
              THEN Returns("view", "invalid", "")
         ELSE /\ pc' = "plan"
              /\ sel' = NamesOf(plans)[choice.val[1]]
              /\ out' = Result("view", "selected", "")
              /\ UNCHANGED <<plans, file, inp>>

selected_plan == plans[IndexOf(plans, sel)]

\* the plan menu: 1 start tracker, 2 view details, 4 return to the list
StartTracker ==
    /\ pc = "plan"
    /\ pc' = "tracker"
    /\ out' = Result("plan", "tracker", "")
    /\ UNCHANGED <<plans, file, sel, inp>>

ViewDetails ==
    /\ pc = "plan"
    /\ Returns("plan", "details", "")

ReturnToList ==
    /\ pc = "plan"
    /\ pc' = "plans"
    /\ sel' = <<>>
    /\ out' = Result("plan", "left", "")
    /\ UNCHANGED <<plans, file, inp>>

\* the plan menu: 3 delete this plan
DeletePlan ==
    /\ pc = "plan"
    /\ \E confirm \in Answers :
         IF ~LowerYes(confirm) THEN Returns("delete", "declined", "")
         ELSE /\ plans' = DictPop(plans, sel)
              /\ file' = write_all_plans_to_file(plans')
              /\ pc' = "plans"
              /\ sel' = <<>>
              /\ out' = Result("delete", "done", "")
              /\ inp' = inp

\* the store with the selected Plan object replaced by its new state
\* (track_plan mutates the object the dict holds)
Mutated(p) == [plans EXCEPT ![IndexOf(plans, sel)] = p]

\* add_saved_amount for an amount typed from the given set, on a plan that
\* has had fewer than MaxDays amounts added
AddSavedAmount(Amounts, MaxDays) ==
    /\ pc = "tracker"
    /\ \E typed \in Amounts :
         LET amount == input_validation(typed) IN
         IF ~amount.ok THEN Returns("add", "input_error", "")
         ELSE LET r == add_saved(selected_plan, amount.val) IN
              IF r.raised THEN Returns("add", "input_error", "")
              ELSE /\ selected_plan.days_passed < MaxDays
                   /\ plans' = Mutated(r.plan)
                   /\ file' = write_all_plans_to_file(plans')
                   /\ out' = Result("add", "done", "")
                   /\ UNCHANGED <<pc, sel, inp>>

add_saved_amount == AddSavedAmount(TypedSaved, MaxDaysPassed)

\* adjust_plan for new values typed from the given sets; update_expenses
\* raising after update_allowance has assigned leaves the new allowance in
\* the object and the file as it was
AdjustPlan(Allowances, Expenses) ==
    /\ pc = "tracker"
    /\ \E a \in Allowances, e \in Expenses :
         LET new_allowance == input_validation(a)
             new_expenses == input_validation(e)
         IN  IF ~(new_allowance.ok /\ new_expenses.ok)
             THEN Returns("adjust", "input_error", "")
             ELSE
             LET r1 == update_allowance(selected_plan, new_allowance.val)
                 r2 == update_expenses(r1.plan, new_expenses.val)
             IN  IF r1.raised
                 THEN Returns("adjust", "input_error", "")
                 ELSE IF r2.raised
                 THEN /\ plans' = Mutated(r1.plan)
                      /\ out' = Result("adjust", "input_error", "")
                      /\ UNCHANGED <<pc, file, sel, inp>>
                 ELSE /\ plans' = Mutated(r2.plan)
                      /\ file' = write_all_plans_to_file(plans')
                      /\ out' = Result("adjust", "done", "")
                      /\ UNCHANGED <<pc, sel, inp>>

adjust_plan == AdjustPlan(TypedNewAllowance, TypedNewExpenses)

\* reset_plan for a confirmation typed from the given set
ResetPlan(YesNo) ==
    /\ pc = "tracker"
    /\ \E confirm \in YesNo :
         IF ~LowerYes(confirm) THEN Returns("reset", "declined", "")
         ELSE /\ plans' = Mutated(reset(selected_plan))
              /\ file' = write_all_plans_to_file(plans')
              /\ out' = Result("reset", "done", "")
              /\ UNCHANGED <<pc, sel, inp>>

reset_plan == ResetPlan(Answers)

show_progress_report ==
    /\ pc = "tracker"
    /\ Returns("report", "done", StatusOf(selected_plan))

recalc_daily_needed ==
    /\ pc = "tracker"
    /\ Returns("recalc", "done", RecalcMessage(selected_plan))

\* track_plan's choice 6
ExitTracker ==
    /\ pc = "tracker"
    /\ pc' = "plan"
    /\ out' = Result("tracker", "left", "")
    /\ UNCHANGED <<plans, file, sel, inp>>

Next ==
    \/ Load
    \/ menu_check_feasibility
    \/ menu_time_needed
    \/ menu_view_plans
    \/ ChoosePlan
    \/ StartTracker
    \/ ViewDetails
    \/ DeletePlan
    \/ ReturnToList
    \/ add_saved_amount
    \/ show_progress_report
    \/ adjust_plan
    \/ recalc_daily_needed
    \/ reset_plan
    \/ ExitTracker
    \/ InvalidChoice
    \/ Exit

Spec == Init /\ [][Next]_vars

----------------------------------------------------------------------------
(* load_plans_from_file on its own, over files with any mix of lines.      *)

MaxLoadLines == 2   \* lines of the file that is loaded

RecordA == FormatLine(Plan(<<"a">>, R(10), R(5), R(5), 1, Day, 1))
RecordA2 ==
    FormatLine([Plan(<<"a">>, R(10), <<34, 7>>, R(10), 1, Week, 7)
                EXCEPT !.saved_so_far = R(5), !.days_passed = 1])
RecordB == FormatLine(Plan(<<"b">>, R(10), R(5), R(10), 2, Day, 1))
\* written by hand: c|1|2|3|4|m|30|0|0
RecordByHand ==
    TextOf(<<"c", "|", "1", "|", "2", "|", "3", "|", "4", "|", "m", "|",
             "3", "0", "|", "0", "|", "0">>)
\* wrong field count
ShortLine == TextOf(<<"a", "|", "1">>)
BlankLine == <<>>
\* nine fields, the allowance is not a number: d|x|2|3|4|m|30|0|0
BadFloatLine ==
    TextOf(<<"d", "|", "x", "|", "2", "|", "3", "|", "4", "|", "m", "|",
             "3", "0", "|", "0", "|", "0">>)
\* nine fields, the periods are the text of a float (as the earlier
\* version of the program kept them)
BadIntLine ==
    <<Txt("e"), Sep, FloatLit(R(10)), Sep, FloatLit(R(5)), Sep,
      FloatLit(R(10)), Sep, FloatLit(R(2)), Sep, Txt("d"), Sep, IntLit(1),
      Sep, FloatLit(Zero), Sep, IntLit(0)>>

LoadLineKinds ==
    {RecordA, RecordA2, RecordB, RecordByHand, ShortLine, BlankLine,
     BadFloatLine, BadIntLine}

RECURSIVE SeqsUpTo(_, _)
SeqsUpTo(S, n) ==
    IF n = 0 THEN {<<>>}
    ELSE LET shorter == SeqsUpTo(S, n - 1) IN
         shorter \cup {Append(q, x) : q \in shorter, x \in S}

LoadFiles ==
    {NoFile} \cup
    {[exists |-> TRUE, lines |-> ls] : ls \in SeqsUpTo(LoadLineKinds, MaxLoadLines)}

InitLoad ==
    /\ pc = "start"
    /\ plans = <<>>
    /\ file \in LoadFiles
    /\ sel = <<>>
    /\ inp = <<>>
    /\ out = Result("none", "none", "")

NextLoad == Load

SpecLoad == InitLoad /\ [][NextLoad]_vars

----------------------------------------------------------------------------
(* The feasibility arithmetic on its own, over positive inputs.            *)

MaxHalves == 6   \* amounts and durations range over 1/2, 1, ..., MaxHalves/2

Halves == {Norm(k, 2) : k \in 1..MaxHalves}

InitFeas ==
    /\ pc = "feas"
    /\ plans = <<>>
    /\ file = NoFile
    /\ sel = <<>>
    /\ inp \in [allowance : Halves, expenses : Halves, duration : Halves,
                 goal : Halves, multiplier : Multipliers]
    /\ out = Result("none", "none", "")

\* currentversion-final-project.py
CheckFeasibility ==
    /\ pc = "feas"
    /\ pc' = "feas_done"
    /\ out' = FeasibilityCalc(inp.allowance, inp.expenses, inp.duration,
                              inp.goal, inp.multiplier)
    /\ UNCHANGED <<plans, file, sel, inp>>

\* final-project-python2.py: int(input()) accepts whole numbers only
CheckFeasibilityV1 ==
    /\ pc = "feas"
    /\ inp.duration[2] = 1
    /\ pc' = "feas_done_v1"
    /\ out' = FeasibilityCalcV1(inp.allowance, inp.expenses, inp.duration[1],
                                inp.goal, inp.multiplier)
    /\ UNCHANGED <<plans, file, sel, inp>>

NextFeas == CheckFeasibility \/ CheckFeasibilityV1

SpecFeas == InitFeas /\ [][NextFeas]_vars

----------------------------------------------------------------------------
(* The time-to-goal arithmetic on its own.                                 *)

MaxTimeAmount == 4   \* allowance and expenses range over 1..MaxTimeAmount
MaxTimeGoal == 5     \* the goal ranges over 1..MaxTimeGoal

\* annual rates in percent: 50 %, 100 % and 200 % a day
TimeRates == {R(18250), R(36500), R(73000)}

InitTime ==
    /\ pc = "time"
    /\ plans = <<>>
    /\ file = NoFile
    /\ sel = <<>>
    /\ inp \in [allowance : {R(k) : k \in 1..MaxTimeAmount},
                 expenses : {R(k) : k \in 1..MaxTimeAmount},
                 goal : {R(k) : k \in 1..MaxTimeGoal},
                 multiplier : Multipliers,
                 percent : TimeRates]
    /\ out = Result("none", "none", "")

\* net <= 0: "You cannot save any money with current spending."
TimeNoSaving ==
    /\ pc = "time"
    /\ RLe(RSub(inp.allowance, inp.expenses), Zero)
    /\ pc' = "time_no_saving"
    /\ UNCHANGED <<plans, file, sel, inp, out>>

\* use_interest == "n"
TimeWithout ==
    /\ pc = "time"
    /\ ~RLe(RSub(inp.allowance, inp.expenses), Zero)
    /\ pc' = "time_done"
    /\ out' = TimeNoInterest(RSub(inp.allowance, inp.expenses), inp.goal,
                             inp.multiplier)
    /\ UNCHANGED <<plans, file, sel, inp>>

\* any other answer: the compound-interest loop
TimeWith ==
    /\ pc = "time"
    /\ ~RLe(RSub(inp.allowance, inp.expenses), Zero)
    /\ pc' = "time_done_interest"
    /\ out' = TimeWithInterest(RSub(inp.allowance, inp.expenses), inp.goal,
                               inp.multiplier, inp.percent)
    /\ UNCHANGED <<plans, file, sel, inp>>

NextTime == TimeNoSaving \/ TimeWithout \/ TimeWith

SpecTime == InitTime /\ [][NextTime]_vars

----------------------------------------------------------------------------
(* SpecMenu: the two calculation menus answered with one fixed set of      *)
(* typed lines, kept in inp, on the store of a session that has just       *)
(* started.                                                                *)

MenuAllowance == {<<"1", "0">>, <<"x">>, <<"0">>}
MenuExpenses == {<<"5">>, <<"1", "0">>, <<"-", "1">>}
MenuDuration == {<<"1">>, <<"x">>}
MenuGoal == {<<"5">>, <<"2", "0">>, <<"0">>}
MenuRate == {<<"3", "6", "5", "0", "0">>, <<"-", "1">>, <<"x">>}
MenuUnits == {"1", "2"}
MenuNames == {<<"c">>}

InitMenu ==
    /\ pc = "main"
    /\ file \in {NoFile, EarlierFile}
    /\ plans = load_plans_from_file(file, <<>>).plans
    /\ sel = <<>>
    /\ inp \in [choice : MenuUnits,
                 allowance : MenuAllowance,
                 expenses : MenuExpenses,
                 duration : MenuDuration,
                 goal : MenuGoal,
                 use_interest : Answers,
                 rate : MenuRate,
                 answer : Answers,
                 plan_name : MenuNames]
    /\ out = Result("none", "none", "")

TypedCheckFeasibility ==
    MenuCheckFeasibility({inp.choice}, {inp.allowance}, {inp.expenses},
                         {inp.duration}, {inp.goal}, {inp.answer},
                         {inp.plan_name})

TypedTimeNeeded ==
    MenuTimeNeeded({inp.choice}, {inp.allowance}, {inp.expenses},
                   {inp.goal}, {inp.use_interest}, {inp.rate},
                   {inp.answer}, {inp.plan_name})

NextMenu == TypedCheckFeasibility \/ TypedTimeNeeded

SpecMenu == InitMenu /\ [][NextMenu]_vars

----------------------------------------------------------------------------
(* SpecTrack: track_plan on one saved plan.  inp holds the lines the user  *)
(* types next; each tracker operation reads its prompts from there.        *)

MaxTrackDays == 3    \* successful add_saved calls since creation or reset

TrackGoals == {R(5), R(10), R(20)}
TrackLengths == {<<1, Day, 1>>, <<2, Day, 1>>, <<3, Day, 1>>, <<1, Week, 7>>}
TrackAmounts == {<<"2", ".", "5">>, <<"1", ",", "0">>, <<"-", "5">>, <<"0">>}
TrackAllowances == {<<"2", "0">>, <<"x">>}
TrackExpenses == {<<"8">>, <<"0">>}

TrackInputs ==
    [amount : TrackAmounts,
     new_allowance : TrackAllowances,
     new_expenses : TrackExpenses,
     confirm : Answers]

InitTrack ==
    /\ pc = "tracker"
    /\ \E goal \in TrackGoals, length \in TrackLengths :
         plans = <<Plan(<<"a">>, R(10), R(5), goal,
                        length[1], length[2], length[3])>>
    /\ file = write_all_plans_to_file(plans)
    /\ sel = <<"a">>
    /\ inp \in TrackInputs
    /\ out = Result("plan", "tracker", "")

\* the user decides what to type at the next prompts
TypeInput ==
    /\ pc = "tracker"
    /\ inp' \in TrackInputs
    /\ out' = Result("input", "typed", "")
    /\ UNCHANGED <<pc, plans, file, sel>>

TypedAddSaved == AddSavedAmount({inp.amount}, MaxTrackDays)

TypedAdjust == AdjustPlan({inp.new_allowance}, {inp.new_expenses})

TypedReset == ResetPlan({inp.confirm})

NextTrack ==
    \/ TypeInput
    \/ TypedAddSaved
    \/ show_progress_report
    \/ TypedAdjust
    \/ recalc_daily_needed
    \/ TypedReset

SpecTrack == InitTrack /\ [][NextTrack]_vars

----------------------------------------------------------------------------
(* SpecSim: the compound-interest loop of menu_time_needed, one iteration  *)
(* a step; out holds the loop's variables.  The loop is sequential code    *)
(* that keeps running, hence the weak fairness of its steps.               *)

MaxSimNet == 3
MaxSimGoal == 7

InitSim ==
    /\ pc = "sim"
    /\ plans = <<>>
    /\ file = NoFile
    /\ sel = <<>>
    /\ inp \in [nt : {R(k) : k \in 1..MaxSimNet},
                 goal : {R(k) : k \in 1..MaxSimGoal},
                 multiplier : Multipliers,
                 percent : TimeRates]
    /\ out = [total_saved |-> Zero, total_days |-> 0, periods_needed |-> 0]

\* the body of the while loop
SimStep ==
    /\ pc = "sim"
    /\ LoopContinues(out.total_saved, inp.goal)
    /\ out' = [out EXCEPT
                 !.total_saved = SimDay(out.total_saved, inp.nt,
                                        inp.multiplier,
                                        RDiv(inp.percent, R(100))),
                 !.total_days = out.total_days + 1]
    /\ UNCHANGED <<pc, plans, file, sel, inp>>

\* the loop ends: periods_needed = math.ceil(total_days / multiplier)
SimExit ==
    /\ pc = "sim"
    /\ ~LoopContinues(out.total_saved, inp.goal)
    /\ pc' = "sim_done"
    /\ out' = [out EXCEPT
                 !.periods_needed = Ceil(<<out.total_days, inp.multiplier>>)]
    /\ UNCHANGED <<plans, file, sel, inp>>

NextSim == SimStep \/ SimExit

SpecSim == InitSim /\ [][NextSim]_vars /\ WF_vars(NextSim)

----------------------------------------------------------------------------
(* Properties.                                                             *)

Mutating ==
    \/ out.op \in {"feasibility", "time"} /\ out.outcome = "saved"
    \/ out.op \in {"add", "adjust", "reset", "delete"} /\ out.outcome = "done"

\* C1: after every mutating operation of the store (a save of a new plan or
\* under an existing name, add, adjust, reset, delete) the file holds exactly
\* one record per plan of the store, in the store's order and with the
\* plan's current values: no duplicate and no stale record.
C1_FileMatchesStore ==
    Mutating =>
        /\ file.exists
        /\ Len(file.lines) = Len(plans)
        /\ \A i \in 1..Len(plans) : file.lines[i] = FormatLine(plans[i])

\* C2: no error is fatal: every menu operation returns to a menu, and the
\* process ends only by the user's choice of Exit.
C2_NoFatalError == pc # "crashed"

\* the store that holds every well-formed record of the lines, in order
RECURSIVE WellFormedRecords(_, _)
WellFormedRecords(lines, ps) ==
    IF lines = <<>> THEN ps
    ELSE LET r == LoadLine(lines[1]) IN
         WellFormedRecords(Tail(lines),
                           IF r.raised \/ r.skipped THEN ps
                           ELSE DictSet(ps, r.plan))

\* C3: loading never aborts: a missing file gives an empty store, and of a
\* file with any mix of lines every malformed record (wrong field count, or
\* nine fields with an unparseable number) is dropped on its own while every
\* well-formed record is loaded.
C3_LoadDropsMalformed ==
    pc # "start" =>
        /\ pc = "main"
        /\ plans = WellFormedRecords(file.lines, <<>>)

\* C4: round trip: for every store the menus can reach, writing all plans
\* and loading them into an empty store gives the same names in the same
\* order, with the same values of every field.
C4_RoundTrip ==
    LET r == load_plans_from_file(write_all_plans_to_file(plans), <<>>) IN
    /\ ~r.raised
    /\ r.plans = plans

\* C5: every plan in the store has allowance > 0, expenses > 0, goal > 0,
\* periods > 0, a multiplier in {1, 7, 30, 365}, saved_so_far >= 0 and
\* days_passed >= 0.
C5_PlanInvariant ==
    \A i \in 1..Len(plans) :
        /\ RLt(Zero, plans[i].allowance)
        /\ RLt(Zero, plans[i].expenses)
        /\ RLt(Zero, plans[i].goal)
        /\ plans[i].periods > 0
        /\ plans[i].multiplier \in {1, 7, 30, 365}
        /\ RLe(Zero, plans[i].saved_so_far)
        /\ plans[i].days_passed >= 0

FeasDone == pc \in {"feas_done", "feas_done_v1"}
Verdicts == {"possible", "impossible", "conditional"}

C7_CutSuffices ==
    /\ FeasibilityCalc(R(500), R(300), R(30), R(10000), 1).cut_shown = 134
    /\ (pc = "feas_done" /\ ~out.raised /\ out.verdict = "conditional") =>
           RLe(inp.goal,
               RMul(RSub(inp.allowance, out.new_expenses), R(out.periods)))

\* C8: in the Possible case, for every multiplier, the reported amount per
\* unit is ceil(goal / totalDays) converted to the unit, so that saving it
\* in every unit of the duration reaches the goal; the surplus (shown
\* rounded down) is total saving - goal and is >= 0.
C8_RequiredPerUnit ==
    (pc = "feas_done" /\ ~out.raised /\ out.verdict = "possible") =>
        /\ out.required_shown =
              R(Ceil(RDiv(inp.goal, R(out.total_days))) * inp.multiplier)
        /\ RLe(inp.goal, RMul(out.required_shown, R(out.periods)))
        /\ out.extra = RSub(out.total_saving_possible, inp.goal)
        /\ out.extra_shown = Floor(out.extra)
        /\ out.extra_shown >= 0

NetOf(i) == RSub(i.allowance, i.expenses)

\* C9: without interest, for net > 0, periodsNeeded is the ceiling of
\* goal / net: periodsNeeded * net >= goal and (periodsNeeded - 1) * net <
\* goal, and totalDays = periodsNeeded * multiplier; allowance 1000,
\* expenses 200, goal 5000, multiplier 1 gives 7.
C9_Ceiling ==
    /\ TimeNoInterest(RSub(R(1000), R(200)), R(5000), 1).periods_needed = 7
    /\ pc = "time_done" =>
           /\ RLt(Zero, NetOf(inp))
           /\ RLe(inp.goal, RMul(R(out.periods_needed), NetOf(inp)))
           /\ RLt(RMul(R(out.periods_needed - 1), NetOf(inp)), inp.goal)
           /\ out.days = out.periods_needed * inp.multiplier

C9_RoundedUp ==
    /\ pc = "time_done"
    /\ inp.multiplier = 7
    /\ out.periods_needed > 1
    /\ RLt(inp.goal, RMul(R(out.periods_needed), NetOf(inp)))

\* C10: the compound-interest simulation is monotonic in the rate: for the
\* same net, goal and multiplier, a rate that is at least as high never
\* needs more simulated days.
C10_Monotonic ==
    pc = "time_done_interest" =>
        \A r2 \in TimeRates :
            RLe(inp.percent, r2) =>
                TimeWithInterest(NetOf(inp), inp.goal, inp.multiplier, r2).days
                    <= out.days

C10_RateMatters ==
    /\ pc = "time_done_interest"
    /\ \E r2 \in TimeRates :
          /\ RLt(inp.percent, r2)
          /\ TimeWithInterest(NetOf(inp), inp.goal, inp.multiplier, r2).days
                < out.days

\* what input_validation is to refuse: a line that, without its commas and
\* spaces, is not a number or is a number <= 0
NumberTyped(s) == ParseFloat(Remove(Remove(s, ","), " "))
Rejected(s) == ~NumberTyped(s).ok \/ RLe(NumberTyped(s).val, Zero)

FeasibilityRejects ==
    \/ Rejected(inp.allowance)
    \/ Rejected(inp.expenses)
    \/ Rejected(inp.duration)
    \/ Rejected(inp.goal)

TimeRejects ==
    \/ Rejected(inp.allowance)
    \/ Rejected(inp.expenses)
    \/ Rejected(inp.goal)
    \/ RLe(RSub(NumberTyped(inp.allowance).val,
                NumberTyped(inp.expenses).val), Zero)
    \/ ~LowerNo(inp.use_interest) /\ Rejected(inp.rate)

\* C11: a feasibility check or a time-to-goal calculation one of whose
\* inputs is rejected (not a number, not positive, invalid interest rate),
\* or a time-to-goal calculation with net <= 0, ends before any save prompt
\* and leaves the store and the file exactly as they were.
C11_FailedInputCreatesNothing ==
    [][ (\/ out'.op = "feasibility" /\ FeasibilityRejects
         \/ out'.op = "time" /\ TimeRejects)
        => /\ plans' = plans
           /\ file' = file
           /\ out'.outcome \in {"input_error", "no_saving"} ]_vars

\* a time-to-goal calculation was refused for net <= 0 next to a stored plan
C11_RefusedNextToAPlan ==
    /\ out.op = "time"
    /\ out.outcome = "no_saving"
    /\ ~Rejected(inp.allowance) /\ ~Rejected(inp.expenses)
    /\ ~Rejected(inp.goal)
    /\ plans # <<>>
    /\ file.lines # <<>>

\* C12: add_saved with an amount <= 0 raises and changes nothing, and an
\* "add" for which such an amount is typed leaves every field of the plan,
\* the rest of the store and the file as they were.
C12_NonPositiveAddChangesNothing ==
    [][ /\ \A x \in {R(0), R(-5), <<-1, 2>>} :
             /\ add_saved(selected_plan, x).raised
             /\ add_saved(selected_plan, x).plan = selected_plan
        /\ (/\ out'.op = "add"
            /\ NumberTyped(inp.amount).ok
            /\ RLe(NumberTyped(inp.amount).val, Zero))
           => /\ out'.outcome = "input_error"
              /\ plans' = plans
              /\ file' = file ]_vars

\* an amount <= 0 was refused on a plan that already has savings
C12_RefusedWithSavings ==
    /\ pc = "tracker"
    /\ out.op = "add"
    /\ out.outcome = "input_error"
    /\ NumberTyped(inp.amount).ok
    /\ RLe(NumberTyped(inp.amount).val, Zero)
    /\ RLt(Zero, selected_plan.saved_so_far)
    /\ selected_plan.days_passed > 0

\* C13: a confirmed reset, from any state of the plan, sets saved_so_far and
\* days_passed to 0 and leaves name, allowance, expenses, goal, periods,
\* unit and multiplier as they were; the progress report taken right after
\* it has remaining = goal, average_saved = 0, days_passed = 0 and
\* saved_so_far = 0.  A reset that is not confirmed changes nothing.
C13_Reset ==
    [][ out'.op = "reset" =>
          IF LowerYes(inp.confirm)
          THEN /\ out'.outcome = "done"
               /\ selected_plan'.saved_so_far = Zero
               /\ selected_plan'.days_passed = 0
               /\ \A field \in {"name", "allowance", "expenses", "goal",
                                "periods", "unit", "multiplier"} :
                     selected_plan'[field] = selected_plan[field]
               /\ Len(plans') = Len(plans)
               /\ LET report == progress_report(selected_plan') IN
                  /\ report.remaining = selected_plan.goal
                  /\ report.average_saved = Zero
                  /\ report.days_passed = 0
                  /\ report.saved_so_far = Zero
          ELSE /\ out'.outcome = "declined"
               /\ plans' = plans
               /\ file' = file ]_vars

\* a plan that had been adjusted in the tracker has just been reset
C13_ResetDone ==
    /\ pc = "tracker"
    /\ out.op = "reset"
    /\ out.outcome = "done"
    /\ selected_plan.allowance = R(20)
    /\ selected_plan.saved_so_far = Zero
    /\ selected_plan.days_passed = 0
    /\ progress_report(selected_plan).remaining = selected_plan.goal

\* the days of the plan that are still to come
RemainingDays(p) == p.periods * p.multiplier - p.days_passed

\* C14: in every reachable plan state daily_needed is 0 when no day remains
\* (also when the goal is not met), and otherwise it is
\* (goal - saved_so_far) / remainingDays: negative exactly when
\* saved_so_far > goal and 0 exactly when saved_so_far = goal.
C14_DailyNeeded ==
    pc = "tracker" =>
        LET p == selected_plan
            d == daily_needed(p)
        IN  IF RemainingDays(p) <= 0 THEN d = Zero
            ELSE /\ RMul(d, R(RemainingDays(p))) = RSub(p.goal, p.saved_so_far)
                 /\ (RLt(d, Zero) <=> RLt(p.goal, p.saved_so_far))
                 /\ (d = Zero <=> p.saved_so_far = p.goal)

\* the goal is overshot with days remaining: the daily amount is negative
C14_Overshoot ==
    /\ pc = "tracker"
    /\ RemainingDays(selected_plan) > 0
    /\ RLt(selected_plan.goal, selected_plan.saved_so_far)
    /\ RLt(daily_needed(selected_plan), Zero)

\* saved_so_far against dailyNeeded x days_passed, without the division:
\* with r > 0 days remaining the expected amount is
\* (goal - saved_so_far) * days_passed / r, with none it is 0
StatusExpected(p) ==
    LET r == RemainingDays(p)
        lhs == IF r > 0 THEN RMul(p.saved_so_far, R(r)) ELSE p.saved_so_far
        rhs == IF r > 0
               THEN RMul(RSub(p.goal, p.saved_so_far), R(p.days_passed))
               ELSE Zero
    IN  IF RLt(rhs, lhs) THEN "Ahead of schedule"
        ELSE IF RLt(lhs, rhs) THEN "Behind schedule"
        ELSE "Right on track"

\* C15: the status of the progress display is, in every reachable plan
\* state, exactly one of Ahead, Behind, On-Track: Ahead if saved_so_far is
\* greater than dailyNeeded x days_passed (from the current dailyNeeded),
\* Behind if smaller, On-Track if equal; the display does not modify the
\* plan.
C15_Status ==
    [][ out'.op = "report" =>
          /\ out'.detail \in {"Ahead of schedule", "Behind schedule",
                              "Right on track"}
          /\ out'.detail = StatusExpected(selected_plan)
          /\ plans' = plans
          /\ file' = file ]_vars

\* a report classified a plan with savings as Behind
C15_ReportedBehind ==
    /\ pc = "tracker"
    /\ out.op = "report"
    /\ out.detail = "Behind schedule"
    /\ selected_plan.days_passed > 0
    /\ RLt(selected_plan.saved_so_far,
           RMul(daily_needed(selected_plan), R(selected_plan.days_passed)))

\* C16: along every sequence of tracker operations a successful add_saved
\* (and only an add of an accepted amount succeeds) raises days_passed by
\* one and saved_so_far by the amount, a confirmed reset sets both to 0, and
\* no other operation (adjust, progress report, recalculate, a refused add,
\* a cancelled reset) changes either; so, from 0 at creation, days_passed
\* counts the successful adds since creation or the last reset and
\* saved_so_far is the sum of their amounts.  days_passed is not held below
\* total_days.
C16_Counters ==
    [][ LET before == selected_plan
            after == selected_plan'
        IN  /\ (out'.op = "add" =>
                  (out'.outcome = "done" <=> ~Rejected(inp.amount)))
            /\ IF out'.op = "add" /\ out'.outcome = "done"
               THEN /\ after.days_passed = before.days_passed + 1
                    /\ after.saved_so_far =
                         RAdd(before.saved_so_far,
                              NumberTyped(inp.amount).val)
               ELSE IF out'.op = "reset" /\ out'.outcome = "done"
               THEN /\ after.days_passed = 0
                    /\ after.saved_so_far = Zero
               ELSE /\ after.days_passed = before.days_passed
                    /\ after.saved_so_far = before.saved_so_far ]_vars

\* three amounts (2.5, 10, 2.5 in some order) added to a plan of fewer days
C16_PastTheLastDay ==
    /\ pc = "tracker"
    /\ selected_plan.days_passed = 3
    /\ selected_plan.saved_so_far = R(15)
    /\ selected_plan.days_passed > total_days(selected_plan)

\* the running total after d days: each day net / multiplier is added and
\* the total is then multiplied by 1 + dailyRate, dailyRate = percent/100/365
RECURSIVE RunningTotal(_, _)
RunningTotal(i, d) ==
    IF d = 0 THEN Zero
    ELSE LET day(t) == RMul(RAdd(t, RDiv(i.nt, R(i.multiplier))),
                            RAdd(R(1), RDiv(i.percent, R(36500))))
         IN  CHOOSE t \in {day(p) : p \in {RunningTotal(i, d - 1)}} : TRUE

\* C17: for every net > 0, goal > 0, multiplier in {1, 7, 30, 365} and
\* positive interest rate the compound-interest loop ends, and when it has
\* ended total_days is the least d >= 1 whose running total is >= goal and
\* periods_needed = ceil(total_days / multiplier).
C17_TerminatesAtLeastDay ==
    /\ <>(pc = "sim_done")
    /\ [](pc = "sim_done" =>
            /\ out.total_days >= 1
            /\ RLe(inp.goal, RunningTotal(inp, out.total_days))
            /\ \A d \in 1..(out.total_days - 1) :
                 RLt(RunningTotal(inp, d), inp.goal)
            /\ out.total_saved = RunningTotal(inp, out.total_days)
            /\ out.periods_needed * inp.multiplier >= out.total_days
            /\ (out.periods_needed - 1) * inp.multiplier < out.total_days)

\* the loop ended in the second week, past the goal
C17_EndsInTheSecondWeek ==
    /\ pc = "sim_done"
    /\ inp.multiplier = 7
    /\ out.total_days > 7
    /\ out.periods_needed = 2
    /\ RLt(inp.goal, out.total_saved)

\* C18: adjusting a plan is all-or-nothing and touches two fields only: when
\* both typed values are accepted, allowance and expenses are replaced by
\* them and goal, periods, unit, multiplier, saved_so_far and days_passed
\* (and the name) stay; when either value is refused (not a number or <= 0)
\* neither allowance nor expenses changes and the file is not rewritten.
C18_AdjustAllOrNothing ==
    [][ out'.op = "adjust" =>
          IF ~Rejected(inp.new_allowance) /\ ~Rejected(inp.new_expenses)
          THEN /\ out'.outcome = "done"
               /\ selected_plan' =
                    [selected_plan EXCEPT
                       !.allowance = NumberTyped(inp.new_allowance).val,
                       !.expenses = NumberTyped(inp.new_expenses).val]
               /\ Len(plans') = Len(plans)
          ELSE /\ out'.outcome = "input_error"
               /\ plans' = plans
               /\ file' = file ]_vars

\* a plan with savings has been adjusted and its file rewritten
C18_Adjusted ==
    /\ pc = "tracker"
    /\ out.op = "adjust"
    /\ out.outcome = "done"
    /\ selected_plan.allowance = R(20)
    /\ selected_plan.expenses = R(8)
    /\ selected_plan.days_passed > 0
    /\ file = write_all_plans_to_file(plans)

\* C19: recalculating the daily target reports "Goal already reached" in
\* every reachable plan state with saved_so_far >= goal (with or without
\* days remaining, also when the goal is overshot), reports "No time left"
\* only when no day remains and saved_so_far < goal, and otherwise reports a
\* positive daily amount.
C19_RecalcMessages ==
    (pc = "tracker" /\ out.op = "recalc") =>
        LET p == selected_plan IN
        /\ (RLe(p.goal, p.saved_so_far) =>
              out.detail.text = "Goal already reached!")
        /\ (out.detail.text = "No time left." =>
              RemainingDays(p) <= 0 /\ RLt(p.saved_so_far, p.goal))
        /\ (out.detail.text = "New daily saving needed to reach goal" =>
              out.detail.amount > 0)

\* C20: once a plan's time is exhausted (days_passed >= total_days with
\* days_passed > 0) the progress display classifies it as Ahead, also when
\* saved_so_far < goal; a plan with days_passed = 0 (new or just reset) is
\* classified On-Track.
C20_ExhaustedIsAhead ==
    (pc = "tracker" /\ out.op = "report") =>
        LET p == selected_plan IN
        /\ (p.days_passed > 0 /\ p.days_passed >= p.periods * p.multiplier
              => out.detail = "Ahead of schedule")
        /\ (p.days_passed = 0 => out.detail = "Right on track")

\* the last day has passed, the goal is not met, and the display says Ahead
C20_AheadBelowTheGoal ==
    /\ pc = "tracker"
    /\ out.op = "report"
    /\ out.detail = "Ahead of schedule"
    /\ selected_plan.days_passed >= total_days(selected_plan)
    /\ RLt(selected_plan.saved_so_far, selected_plan.goal)

====
